---- MODULE Spec2Model ----
(***************************************************************************)
(* Traffic-statistics core of sniffnet: the per-connection record          *)
(* (InfoAddressPortPair) with its merge (refresh), projection              *)
(* (transmitted_data) and comparator (compare), and the report queries     *)
(* built on it (get_searched_entries, get_host_entries,                    *)
(* get_service_entries).                                                   *)
(***************************************************************************)
EXTENDS Integers, Sequences, FiniteSets

VARIABLES
    \* one InfoAddressPortPair of the map and the deltas merged into it
    rec, rec_before, last_delta, n_refresh,
    \* two records handed to compare and the last comparison made
    pair_a, pair_b, cmp_args, cmp_result,
    \* the Sniffer read by get_searched_entries and what its last call returned
    sniffer, searched,
    \* the InfoTraffic tables read by get_host_entries and get_service_entries,
    \* their sort_type and data_repr arguments, and what their last calls returned
    info_traffic, top_args, top_hosts, top_services

vars == <<rec, rec_before, last_delta, n_refresh,
          pair_a, pair_b, cmp_args, cmp_result,
          sniffer, searched,
          info_traffic, top_args, top_hosts, top_services>>

refreshVars == <<rec, rec_before, last_delta, n_refresh>>
compareVars == <<pair_a, pair_b, cmp_args, cmp_result>>
queryVars == <<sniffer, searched>>
topVars == <<info_traffic, top_args, top_hosts, top_services>>

----------------------------------------------------------------------------
(* Bounds of the model *)

\* merges applied to one record
MaxRefresh == 2
\* largest byte counter and latency of a record handed to compare
MaxCount == 1
\* connections in info_traffic.map
MaxConn == 45
\* largest page_number asked for
MaxPage == 4
\* entries of info_traffic.hosts
MaxHosts == 31
\* entries of info_traffic.services, NotApplicable among them
MaxServices == 32

----------------------------------------------------------------------------
(* Value domains *)

\* Option<T>: None is the empty sequence, Some(x) the one-element sequence
None == <<>>
Some(x) == <<x>>

SortBys == {"Packets", "Bytes", "Latency"}
SortTypes == {"Ascending", "Descending", "Neutral"}
DataReprs == {"Packets", "Bytes", "Bits"}
TrafficDirections == {"Incoming", "Outgoing"}
IcmpTypes == {"EchoRequest", "EchoReply"}
ArpTypes == {"Request", "Reply"}

\* Timestamp::new(secs, usecs)
Timestamp(s, u) == [secs |-> s, usecs |-> u]

\* std::cmp::Ordering
Reverse(o) == CASE o = "Less" -> "Greater"
                [] o = "Greater" -> "Less"
                [] OTHER -> "Equal"

\* Ord::cmp on unsigned integers
IntCmp(x, y) == IF x < y THEN "Less" ELSE IF x > y THEN "Greater" ELSE "Equal"

\* std::cmp::min
min(x, y) == IF x <= y THEN x ELSE y

\* Ord::cmp on Timestamp: seconds first, then microseconds
TimestampCmp(t1, t2) ==
    IF t1.secs # t2.secs THEN IntCmp(t1.secs, t2.secs)
    ELSE IntCmp(t1.usecs, t2.usecs)

\* Ord::cmp on Option<i64>: None is below every Some
OptionCmp(x, y) ==
    IF x = None THEN (IF y = None THEN "Equal" ELSE "Less")
    ELSE IF y = None THEN "Greater"
    ELSE IntCmp(x[1], y[1])

\* the seeds of the HashMaps' hashers tried: the order `iter()` yields the
\* entries in is not specified
HashSeeds == {17, 29}

\* the empty HashMap
EmptyMap == [t \in {} |-> 0]

\* HashMap::get(..).unwrap_or(0) on a count map
Count(m, t) == IF t \in DOMAIN m THEN m[t] ELSE 0

----------------------------------------------------------------------------
(* InfoAddressPortPair::refresh *)

\* the loop `for (t, count) in &other: entry(t).and_modify(+= count).or_insert(count)`
MergeCounts(mine, theirs) ==
    [t \in DOMAIN mine \cup DOMAIN theirs |->
        IF t \in DOMAIN theirs
        THEN (IF t \in DOMAIN mine THEN mine[t] + theirs[t] ELSE theirs[t])
        ELSE mine[t]]

\* refresh with `self.latency = other.latency` done unconditionally
refresh_latency_overwritten(self, other) ==
    [self EXCEPT
        !.transmitted_bytes = self.transmitted_bytes + other.transmitted_bytes,
        !.transmitted_packets = self.transmitted_packets + other.transmitted_packets,
        !.final_timestamp = other.final_timestamp,
        !.service = other.service,
        !.traffic_direction = other.traffic_direction,
        !.icmp_types = MergeCounts(self.icmp_types, other.icmp_types),
        !.arp_types = MergeCounts(self.arp_types, other.arp_types),
        !.latency = other.latency,
        !.syn_info = IF other.syn_info # None THEN other.syn_info ELSE self.syn_info]

\* refresh with `=` in place of `+=` on the byte counter
refresh_bytes_assigned(self, other) ==
    [self EXCEPT
        !.transmitted_bytes = other.transmitted_bytes,
        !.transmitted_packets = self.transmitted_packets + other.transmitted_packets,
        !.final_timestamp = other.final_timestamp,
        !.service = other.service,
        !.traffic_direction = other.traffic_direction,
        !.icmp_types = MergeCounts(self.icmp_types, other.icmp_types),
        !.arp_types = MergeCounts(self.arp_types, other.arp_types),
        !.latency = IF other.latency # None THEN other.latency ELSE self.latency,
        !.syn_info = IF other.syn_info # None THEN other.syn_info ELSE self.syn_info]

refresh(self, other) ==
    [self EXCEPT
        !.transmitted_bytes = self.transmitted_bytes + other.transmitted_bytes,
        !.transmitted_packets = self.transmitted_packets + other.transmitted_packets,
        !.final_timestamp = other.final_timestamp,
        !.service = other.service,
        !.traffic_direction = other.traffic_direction,
        !.icmp_types = MergeCounts(self.icmp_types, other.icmp_types),
        !.arp_types = MergeCounts(self.arp_types, other.arp_types),
        !.latency = IF other.latency # None THEN other.latency ELSE self.latency,
        !.syn_info = IF other.syn_info # None THEN other.syn_info ELSE self.syn_info]

\* InfoAddressPortPair::transmitted_data
transmitted_data(self, data_repr) ==
    CASE data_repr = "Packets" -> self.transmitted_packets
      [] data_repr = "Bytes" -> self.transmitted_bytes
      [] data_repr = "Bits" -> self.transmitted_bytes * 8

\* compare whose Descending arm for Latency keeps the Ascending operand order
compare_latency_not_inverted(self, other, sort_by, sort_type, data_repr) ==
    CASE sort_type = "Ascending" ->
            (CASE sort_by = "Packets" ->
                    IntCmp(self.transmitted_packets, other.transmitted_packets)
               [] sort_by = "Bytes" ->
                    IntCmp(self.transmitted_bytes, other.transmitted_bytes)
               [] sort_by = "Latency" -> OptionCmp(self.latency, other.latency))
      [] sort_type = "Descending" ->
            (CASE sort_by = "Packets" ->
                    IntCmp(other.transmitted_packets, self.transmitted_packets)
               [] sort_by = "Bytes" ->
                    IntCmp(other.transmitted_bytes, self.transmitted_bytes)
               [] sort_by = "Latency" -> OptionCmp(self.latency, other.latency))
      [] sort_type = "Neutral" ->
            TimestampCmp(other.final_timestamp, self.final_timestamp)

\* compare whose Neutral arm orders by final_timestamp ascending
compare_neutral_oldest_first(self, other, sort_by, sort_type, data_repr) ==
    CASE sort_type = "Ascending" ->
            (CASE sort_by = "Packets" ->
                    IntCmp(self.transmitted_packets, other.transmitted_packets)
               [] sort_by = "Bytes" ->
                    IntCmp(self.transmitted_bytes, other.transmitted_bytes)
               [] sort_by = "Latency" -> OptionCmp(self.latency, other.latency))
      [] sort_type = "Descending" ->
            (CASE sort_by = "Packets" ->
                    IntCmp(other.transmitted_packets, self.transmitted_packets)
               [] sort_by = "Bytes" ->
                    IntCmp(other.transmitted_bytes, self.transmitted_bytes)
               [] sort_by = "Latency" -> OptionCmp(other.latency, self.latency))
      [] sort_type = "Neutral" ->
            TimestampCmp(self.final_timestamp, other.final_timestamp)

\* InfoAddressPortPair::compare
compare(self, other, sort_by, sort_type, data_repr) ==
    CASE sort_type = "Ascending" ->
            (CASE sort_by = "Packets" ->
                    IntCmp(self.transmitted_packets, other.transmitted_packets)
               [] sort_by = "Bytes" ->
                    IntCmp(self.transmitted_bytes, other.transmitted_bytes)
               [] sort_by = "Latency" -> OptionCmp(self.latency, other.latency))
      [] sort_type = "Descending" ->
            (CASE sort_by = "Packets" ->
                    IntCmp(other.transmitted_packets, self.transmitted_packets)
               [] sort_by = "Bytes" ->
                    IntCmp(other.transmitted_bytes, self.transmitted_bytes)
               [] sort_by = "Latency" -> OptionCmp(other.latency, self.latency))
      [] sort_type = "Neutral" ->
            TimestampCmp(other.final_timestamp, self.final_timestamp)

----------------------------------------------------------------------------
(* get_host_entries and get_service_entries *)

\* entries of the hosts and services overviews
TopEntries == 30

\* DataInfo::tot_data
tot_data(self, data_repr) ==
    CASE data_repr = "Packets" -> self.incoming_packets + self.outgoing_packets
      [] data_repr = "Bytes" -> self.incoming_bytes + self.outgoing_bytes
      [] data_repr = "Bits" -> (self.incoming_bytes + self.outgoing_bytes) * 8

\* DataInfo::compare
data_info_compare(self, other, sort_type, data_repr) ==
    CASE sort_type = "Ascending" ->
            IntCmp(tot_data(self, data_repr), tot_data(other, data_repr))
      [] sort_type = "Descending" ->
            IntCmp(tot_data(other, data_repr), tot_data(self, data_repr))
      [] sort_type = "Neutral" -> IntCmp(other.final_instant, self.final_instant)

\* the DataInfo of an element of sorted_vec: `a.data_info` of a
\* (&Host, &DataInfoHost), `a` of a (&Service, &DataInfo)
data_info_of(e, table) == IF table = "hosts" THEN e[2].data_info ELSE e[2]

\* slice::sort_by, a stable merge sort, with the comparators of lines 86 and 106
RECURSIVE merge_runs_top(_, _, _, _, _), sort_by_top(_, _, _, _)
merge_runs_top(left, right, table, sort_type, data_repr) ==
    IF left = <<>> THEN right
    ELSE IF right = <<>> THEN left
    ELSE IF data_info_compare(data_info_of(right[1], table),
                              data_info_of(left[1], table), sort_type, data_repr)
                = "Less"
         THEN <<right[1]>>
                  \o merge_runs_top(left, Tail(right), table, sort_type, data_repr)
         ELSE <<left[1]>>
                  \o merge_runs_top(Tail(left), right, table, sort_type, data_repr)

sort_by_top(v, table, sort_type, data_repr) ==
    IF Len(v) <= 1 THEN v
    ELSE LET mid == Len(v) \div 2
         IN  merge_runs_top(sort_by_top(SubSeq(v, 1, mid),
                                        table, sort_type, data_repr),
                            sort_by_top(SubSeq(v, mid + 1, Len(v)),
                                        table, sort_type, data_repr),
                            table, sort_type, data_repr)

\* n_entry without the cap
n_entry_uncapped(len) == len

\* `min(sorted_vec.len(), 30)`
n_entry(len) == min(len, TopEntries)

\* Service::NotApplicable
NotApplicable == [kind |-> "NotApplicable", id |-> 0]

get_host_entries(it, data_repr, sort_type) ==
    LET sorted_vec == sort_by_top(it.hosts, "hosts", sort_type, data_repr)
    IN  SubSeq(sorted_vec, 1, n_entry(Len(sorted_vec)))

get_service_entries(it, data_repr, sort_type) ==
    LET sorted_vec == sort_by_top(SelectSeq(it.services,
                                            LAMBDA e : e[1] # NotApplicable),
                                  "services", sort_type, data_repr)
    IN  SubSeq(sorted_vec, 1, n_entry(Len(sorted_vec)))

\* the k-th host seen and its DataInfoHost
HostOf(k) == [domain |-> k, asn |-> k % 5, country |-> k % 3]
HostDataInfo(k) ==
    [data_info |-> [incoming_packets |-> (k * 3) % 5,
                    outgoing_packets |-> k % 2,
                    incoming_bytes |-> 100 * ((k * 2) % 7),
                    outgoing_bytes |-> 10 * (k % 4),
                    final_instant |-> (k * 5) % 11],
     is_favorite |-> k % 4 = 0]

\* the k-th service seen (the second one is NotApplicable) and its DataInfo
ServiceOf(k) == IF k = 2 THEN NotApplicable
                ELSE IF k = 4 THEN [kind |-> "Unknown", id |-> 0]
                ELSE [kind |-> "Name", id |-> k]
ServiceDataInfo(k) ==
    [incoming_packets |-> 1 + ((k * 2) % 5),
     outgoing_packets |-> (k * 3) % 4,
     incoming_bytes |-> 50 * ((k * 5) % 6),
     outgoing_bytes |-> 20 * (k % 3),
     final_instant |-> (k * 7) % 13]

\* HashMap::insert of a new key: the table is the sequence `iter()` yields,
\* each element with the slot that places it in that sequence
TableInsert(table, k, key, val, seed) ==
    LET slot == (k * seed) % 47
    IN  SelectSeq(table, LAMBDA e : e[3] < slot)
            \o << <<key, val, slot>> >>
            \o SelectSeq(table, LAMBDA e : e[3] > slot)

----------------------------------------------------------------------------
(* The packets' deltas merged into a record *)

\* (final_timestamp, service, traffic_direction) of one delta
DeltaProfiles ==
    {<<Timestamp(1, 500), "DNS", "Incoming">>,
     <<Timestamp(2, 0), "HTTP", "Outgoing">>}
\* (transmitted_bytes, transmitted_packets) of one delta
DeltaVolumes == {<<0, 1>>, <<3, 2>>}
\* (icmp_types, arp_types) of one delta
DeltaSubtypes ==
    {<<EmptyMap, EmptyMap>>,
     <<[t \in {"EchoRequest"} |-> 1], EmptyMap>>,
     <<[t \in IcmpTypes |-> IF t = "EchoRequest" THEN 1 ELSE 2], EmptyMap>>,
     <<EmptyMap, [t \in {"Request"} |-> 1]>>}
\* (latency, syn_info) of one delta
DeltaOptionals ==
    {<<None, None>>,
     <<Some(5), None>>,
     <<None, Some(<<Timestamp(1, 0), "Outgoing">>)>>,
     <<Some(9), Some(<<Timestamp(1, 500), "Incoming">>)>>}

Deltas ==
    {[mac_address1 |-> None, mac_address2 |-> None,
      transmitted_bytes |-> v[1], transmitted_packets |-> v[2],
      initial_timestamp |-> pr[1], final_timestamp |-> pr[1],
      service |-> pr[2], traffic_direction |-> pr[3],
      icmp_types |-> st[1], arp_types |-> st[2],
      latency |-> op[1], syn_info |-> op[2]] :
        v \in DeltaVolumes, pr \in DeltaProfiles, st \in DeltaSubtypes,
        op \in DeltaOptionals}

\* the records handed to compare
CompareTimes == {Timestamp(0, 1), Timestamp(1, 0), Timestamp(1, 1)}
ComparePackets == {8, 10}
CompareRecords ==
    {[mac_address1 |-> None, mac_address2 |-> None,
      transmitted_bytes |-> b, transmitted_packets |-> p,
      initial_timestamp |-> Timestamp(0, 0), final_timestamp |-> ts,
      service |-> "DNS", traffic_direction |-> "Incoming",
      icmp_types |-> EmptyMap, arp_types |-> EmptyMap,
      latency |-> l, syn_info |-> None] :
        b \in 0..MaxCount, p \in ComparePackets, ts \in CompareTimes,
        l \in {None} \cup {Some(x) : x \in 0..MaxCount}}

\* InfoAddressPortPair::default()
DefaultRecord ==
    [mac_address1 |-> None, mac_address2 |-> None,
     transmitted_bytes |-> 0, transmitted_packets |-> 0,
     initial_timestamp |-> Timestamp(0, 0), final_timestamp |-> Timestamp(0, 0),
     service |-> "Unknown", traffic_direction |-> "Incoming",
     icmp_types |-> EmptyMap, arp_types |-> EmptyMap,
     latency |-> None, syn_info |-> None]

NoArgs == [sort_by |-> "-", sort_type |-> "-", data_repr |-> "-"]

----------------------------------------------------------------------------
(* The Sniffer's state read by get_searched_entries *)

\* entries per page of the connections report
PageSize == 20

\* the address of the monitored host and the remote addresses seen
LocalAddress == "192.168.1.2"
RemoteAddresses == <<"1.1.1.1", "8.8.8.8", "9.9.9.9", "4.4.4.4">>

\* the k-th connection seen: every third one is incoming
ConnDirection(k) == IF k % 3 = 0 THEN "Incoming" ELSE "Outgoing"
ConnRemote(k) == RemoteAddresses[(k % 4) + 1]

\* AddressPortPair of the k-th connection
ConnKey(k) ==
    IF ConnDirection(k) = "Outgoing"
    THEN [address1 |-> LocalAddress, port1 |-> 40000 + k,
          address2 |-> ConnRemote(k), port2 |-> 443, protocol |-> "TCP"]
    ELSE [address1 |-> ConnRemote(k), port1 |-> 443,
          address2 |-> LocalAddress, port2 |-> 40000 + k, protocol |-> "TCP"]

\* InfoAddressPortPair of the k-th connection: counters, latency and
\* timestamps that tie and that order the connections differently
ConnInfo(k) ==
    [DefaultRecord EXCEPT
        !.transmitted_bytes = 100 * ((k * 7) % 5),
        !.transmitted_packets = 1 + ((k * 3) % 4),
        !.initial_timestamp = Timestamp(k % 7, 0),
        !.final_timestamp = Timestamp(k % 7, (k * 5) % 3),
        !.service = IF k % 2 = 0 THEN "HTTPS" ELSE "DNS",
        !.traffic_direction = ConnDirection(k),
        !.latency = IF k % 5 = 0 THEN None ELSE Some((k * 2) % 3)]

\* the position of a key in the HashMap's iteration order, which the
\* hasher's seed decides
KeyHash(key, seed) ==
    LET port == IF key.address1 = LocalAddress THEN key.port1 ELSE key.port2
    IN  ((port - 40000) * seed) % 47

\* HashMap::insert of a new key: `map` is the sequence `map.iter()` yields
MapInsert(map, key, val, seed) ==
    SelectSeq(map, LAMBDA e : KeyHash(e.key, seed) < KeyHash(key, seed))
        \o << [key |-> key, val |-> val] >>
        \o SelectSeq(map, LAMBDA e : KeyHash(e.key, seed) > KeyHash(key, seed))

\* addresses_resolved: address -> (rDNS, Host); 4.4.4.4 is not resolved yet
AddressesResolved ==
    [a \in {"1.1.1.1", "8.8.8.8", "9.9.9.9"} |->
        CASE a = "1.1.1.1" -> <<"one.one.one.one", "cloudflare">>
          [] a = "8.8.8.8" -> <<"dns.google", "google">>
          [] a = "9.9.9.9" -> <<"dns9.quad9.net", "quad9">>]

\* info_traffic.hosts (is_favorite of each DataInfoHost); quad9 is resolved
\* but has no entry yet
HostIsFavorite == [h \in {"cloudflare", "google"} |-> h = "cloudflare"]

\* the search parameters tried
Searches == {"Any", "OnlyFavorites", "Nothing"}
\* the blacklists tried
Blacklists == {{}, {"8.8.8.8", "4.4.4.4"}}

\* get_address_to_lookup: the remote end of the connection
get_address_to_lookup(key, traffic_direction) ==
    IF traffic_direction = "Outgoing" THEN key.address2 ELSE key.address1

\* SearchParameters::match_entry
match_entry(search, key, value, r_dns_host, is_favorite) ==
    CASE search = "Any" -> TRUE
      [] search = "OnlyFavorites" -> is_favorite
      [] search = "Nothing" -> FALSE

\* DataInfo::default and DataInfo::add_packets
DataInfoDefault ==
    [incoming_packets |-> 0, outgoing_packets |-> 0,
     incoming_bytes |-> 0, outgoing_bytes |-> 0, final_instant |-> 0]

add_packets(self, packets, bytes, traffic_direction) ==
    IF traffic_direction = "Outgoing"
    THEN [self EXCEPT !.outgoing_packets = @ + packets,
                      !.outgoing_bytes = @ + bytes]
    ELSE [self EXCEPT !.incoming_packets = @ + packets,
                      !.incoming_bytes = @ + bytes]

----------------------------------------------------------------------------
(* get_searched_entries *)

\* the closure of `.filter(..)`
entry_matches(sn, key, value) ==
    LET address_to_lookup == get_address_to_lookup(key, value.traffic_direction)
        r_dns_host == IF address_to_lookup \in DOMAIN AddressesResolved
                      THEN Some(AddressesResolved[address_to_lookup])
                      ELSE None
        is_favorite == IF r_dns_host # None
                       THEN (IF r_dns_host[1][2] \in DOMAIN HostIsFavorite
                             THEN HostIsFavorite[r_dns_host[1][2]]
                             ELSE FALSE)
                       ELSE FALSE
    IN  match_entry(sn.search, key, value, r_dns_host, is_favorite)

\* is_blacklisted with the test of address2 left out
is_blacklisted_address1_only(blacklist, address_port_pair) ==
    address_port_pair.address1 \in blacklist

\* the flag computed in the closure of `.map(..)`
is_blacklisted(blacklist, address_port_pair) ==
    LET first == address_port_pair.address1 \in blacklist
    IN  IF ~first /\ address_port_pair.address2 \in blacklist THEN TRUE ELSE first

\* the matching entries of the map, in iteration order, as ReportEntry
collect(sn) ==
    LET matching == SelectSeq(sn.map, LAMBDA e : entry_matches(sn, e.key, e.val))
    IN  [i \in 1..Len(matching) |->
            [key |-> matching[i].key, val |-> matching[i].val,
             is_blacklisted |-> is_blacklisted(sn.blacklist, matching[i].key)]]

\* the running total `agglomerate` folded over the matching entries
RECURSIVE agglomerate_of(_, _)
agglomerate_of(entries, acc) ==
    IF entries = <<>> THEN acc
    ELSE agglomerate_of(Tail(entries),
                        add_packets(acc, entries[1].val.transmitted_packets,
                                    entries[1].val.transmitted_bytes,
                                    entries[1].val.traffic_direction))

\* slice::sort_by, a stable merge sort, with the comparator of lines 59-65;
\* `sort_by_arg` is the SortBy that compare receives
RECURSIVE merge_runs(_, _, _, _, _), slice_sort_by(_, _, _, _)
merge_runs(left, right, sort_by_arg, sort_type, data_repr) ==
    IF left = <<>> THEN right
    ELSE IF right = <<>> THEN left
    ELSE IF compare(right[1].val, left[1].val, sort_by_arg, sort_type, data_repr)
                = "Less"
         THEN <<right[1]>>
                  \o merge_runs(left, Tail(right), sort_by_arg, sort_type, data_repr)
         ELSE <<left[1]>>
                  \o merge_runs(Tail(left), right, sort_by_arg, sort_type, data_repr)

slice_sort_by(v, sort_by_arg, sort_type, data_repr) ==
    IF Len(v) <= 1 THEN v
    ELSE LET mid == Len(v) \div 2
         IN  merge_runs(slice_sort_by(SubSeq(v, 1, mid),
                                      sort_by_arg, sort_type, data_repr),
                        slice_sort_by(SubSeq(v, mid + 1, Len(v)),
                                      sort_by_arg, sort_type, data_repr),
                        sort_by_arg, sort_type, data_repr)

\* usize::saturating_sub
saturating_sub(x, y) == IF x >= y THEN x - y ELSE 0

\* slice::get(start..end): None when the range is not within the slice
slice_get(v, start, end) ==
    IF start > end \/ end > Len(v) THEN None
    ELSE Some(SubSeq(v, start + 1, end))

\* Option::unwrap_or_default on a slice
unwrap_or_default(o) == IF o = None THEN <<>> ELSE o[1]

\* upper_bound without the min against the number of results
upper_bound_unclamped(page_number, len) == page_number * PageSize

\* `min(sniffer.page_number * 20, all_results.len())`
upper_bound(page_number, len) == min(page_number * PageSize, len)

\* lower_bound that takes the page number for zero-based
lower_bound_zero_based(page_number) == page_number * PageSize

\* `(sniffer.page_number.saturating_sub(1)) * 20`
lower_bound(page_number) == saturating_sub(page_number, 1) * PageSize

\* all_results after the sort
all_results(sn, sort_by_arg) ==
    slice_sort_by(collect(sn), sort_by_arg, sn.report_sort_type, sn.data_repr)

\* the returned tuple with the count and the running total taken over the
\* returned page instead of over all the matches
searched_tuple_of_page(sn, sorted) ==
    LET page == unwrap_or_default(
                    slice_get(sorted, lower_bound(sn.page_number),
                              upper_bound(sn.page_number, Len(sorted))))
    IN  [entries |-> page,
         total |-> Len(page),
         agglomerate |-> agglomerate_of(page, DataInfoDefault)]

\* the returned tuple, given all_results
searched_tuple(sn, sorted) ==
    [entries |-> unwrap_or_default(
                     slice_get(sorted, lower_bound(sn.page_number),
                               upper_bound(sn.page_number, Len(sorted)))),
     total |-> Len(sorted),
     agglomerate |-> agglomerate_of(collect(sn), DataInfoDefault)]

get_searched_entries(sn, sort_by_arg) ==
    searched_tuple(sn, all_results(sn, sort_by_arg))

----------------------------------------------------------------------------
(* Specification of the merge: a record is created from the first packet's  *)
(* information and every later packet of the pair is merged into it.        *)

NoSniffer ==
    [map |-> <<>>, hash_seed |-> 17, page_number |-> 1, search |-> "Any",
     blacklist |-> {},
     report_sort_type |-> "Neutral", data_repr |-> "Bytes"]

IdleQuery ==
    /\ sniffer = NoSniffer
    /\ searched = None

NoInfoTraffic == [hosts |-> <<>>, services |-> <<>>, hash_seed |-> 17]
NoTopArgs == [sort_type |-> "Neutral", data_repr |-> "Bytes"]

IdleTop ==
    /\ info_traffic = NoInfoTraffic
    /\ top_args = NoTopArgs
    /\ top_hosts = None
    /\ top_services = None

IdleRefresh ==
    /\ rec = DefaultRecord /\ rec_before = None /\ last_delta = None
    /\ n_refresh = 0

IdleCompare ==
    /\ pair_a = DefaultRecord /\ pair_b = DefaultRecord
    /\ cmp_args = NoArgs /\ cmp_result = "-"

InitRefresh ==
    /\ rec \in Deltas
    /\ rec_before = None
    /\ last_delta = None
    /\ n_refresh = 0
    /\ IdleCompare
    /\ IdleQuery
    /\ IdleTop

Refresh(other) ==
    /\ n_refresh < MaxRefresh
    /\ rec' = refresh(rec, other)
    /\ rec_before' = Some(rec)
    /\ last_delta' = Some(other)
    /\ n_refresh' = n_refresh + 1
    /\ UNCHANGED compareVars
    /\ UNCHANGED queryVars
    /\ UNCHANGED topVars

NextRefresh == \E other \in Deltas : Refresh(other)

SpecRefresh == InitRefresh /\ [][NextRefresh]_vars

----------------------------------------------------------------------------
(* Specification of the comparator *)

InitCompare ==
    /\ pair_a \in CompareRecords
    /\ pair_b \in CompareRecords
    /\ cmp_args = NoArgs
    /\ cmp_result = "-"
    /\ IdleRefresh
    /\ IdleQuery
    /\ IdleTop

Compare(sort_by, sort_type, data_repr) ==
    /\ cmp_args' = [sort_by |-> sort_by, sort_type |-> sort_type,
                    data_repr |-> data_repr]
    /\ cmp_result' = compare(pair_a, pair_b, sort_by, sort_type, data_repr)
    /\ UNCHANGED <<pair_a, pair_b>>
    /\ UNCHANGED refreshVars
    /\ UNCHANGED queryVars
    /\ UNCHANGED topVars

NextCompare ==
    \E sb \in SortBys, st \in SortTypes, dr \in DataReprs : Compare(sb, st, dr)

SpecCompare == InitCompare /\ [][NextCompare]_vars

----------------------------------------------------------------------------
(* Specification of the connections report: connections are added to the    *)
(* map as they are seen, the user turns pages, and the view calls           *)
(* get_searched_entries.                                                    *)

InitQuery ==
    /\ \E s \in Searches, b \in Blacklists, st \in SortTypes, h \in HashSeeds :
           sniffer = [NoSniffer EXCEPT !.search = s, !.blacklist = b,
                                       !.report_sort_type = st, !.hash_seed = h]
    /\ searched = None
    /\ IdleRefresh
    /\ IdleCompare
    /\ IdleTop

\* a packet of a pair not in the map yet: the pair is inserted
NewConnection ==
    /\ Len(sniffer.map) < MaxConn
    /\ LET k == Len(sniffer.map) + 1
       IN  sniffer' = [sniffer EXCEPT
                          !.map = MapInsert(sniffer.map, ConnKey(k), ConnInfo(k),
                                            sniffer.hash_seed)]
    /\ searched' = None
    /\ UNCHANGED refreshVars
    /\ UNCHANGED compareVars
    /\ UNCHANGED topVars

\* the user asks for another page
SetPage(p) ==
    /\ p # sniffer.page_number
    /\ sniffer' = [sniffer EXCEPT !.page_number = p]
    /\ searched' = None
    /\ UNCHANGED refreshVars
    /\ UNCHANGED compareVars
    /\ UNCHANGED topVars

\* the view asks for the entries to show. The call of compare at lines 60-64
\* passes report_sort_type and data_repr and names no SortBy: the sort key
\* compare receives is read from nothing the user set, it is any of the three
GetSearchedEntries(sort_by_arg) ==
    /\ searched = None
    /\ searched' = Some([sort_by_arg |-> sort_by_arg,
                         result |-> get_searched_entries(sniffer, sort_by_arg)])
    /\ UNCHANGED sniffer
    /\ UNCHANGED refreshVars
    /\ UNCHANGED compareVars
    /\ UNCHANGED topVars

NextQuery ==
    \/ NewConnection
    \/ \E p \in 0..MaxPage : SetPage(p)
    \/ \E sb \in SortBys : GetSearchedEntries(sb)

SpecQuery == InitQuery /\ [][NextQuery]_vars

----------------------------------------------------------------------------
(* Specification of the overviews: hosts and services are added to the      *)
(* tables as they are seen, and the view calls get_host_entries and         *)
(* get_service_entries.                                                     *)

InitTop ==
    /\ \E h \in HashSeeds : info_traffic = [NoInfoTraffic EXCEPT !.hash_seed = h]
    /\ \E st \in SortTypes, dr \in DataReprs :
           top_args = [sort_type |-> st, data_repr |-> dr]
    /\ top_hosts = None
    /\ top_services = None
    /\ IdleRefresh
    /\ IdleCompare
    /\ IdleQuery

\* traffic of a host not in the table yet
NewHost ==
    /\ Len(info_traffic.hosts) < MaxHosts
    /\ LET k == Len(info_traffic.hosts) + 1
       IN  info_traffic' =
               [info_traffic EXCEPT
                   !.hosts = TableInsert(@, k, HostOf(k), HostDataInfo(k),
                                         info_traffic.hash_seed)]
    /\ top_hosts' = None
    /\ UNCHANGED <<top_args, top_services>>
    /\ UNCHANGED refreshVars
    /\ UNCHANGED compareVars
    /\ UNCHANGED queryVars

\* traffic of a service not in the table yet
NewService ==
    /\ Len(info_traffic.services) < MaxServices
    /\ LET k == Len(info_traffic.services) + 1
       IN  info_traffic' =
               [info_traffic EXCEPT
                   !.services = TableInsert(@, k, ServiceOf(k), ServiceDataInfo(k),
                                            info_traffic.hash_seed)]
    /\ top_services' = None
    /\ UNCHANGED <<top_args, top_hosts>>
    /\ UNCHANGED refreshVars
    /\ UNCHANGED compareVars
    /\ UNCHANGED queryVars

GetHostEntries ==
    /\ top_hosts = None
    /\ top_hosts' = Some(get_host_entries(info_traffic, top_args.data_repr,
                                          top_args.sort_type))
    /\ UNCHANGED <<info_traffic, top_args, top_services>>
    /\ UNCHANGED refreshVars
    /\ UNCHANGED compareVars
    /\ UNCHANGED queryVars

GetServiceEntries ==
    /\ top_services = None
    /\ top_services' = Some(get_service_entries(info_traffic, top_args.data_repr,
                                                top_args.sort_type))
    /\ UNCHANGED <<info_traffic, top_args, top_hosts>>
    /\ UNCHANGED refreshVars
    /\ UNCHANGED compareVars
    /\ UNCHANGED queryVars

NextTop ==
    \/ NewHost
    \/ NewService
    \/ GetHostEntries
    \/ GetServiceEntries

SpecTop == InitTop /\ [][NextTop]_vars

----------------------------------------------------------------------------
(* Properties of the merge (SpecRefresh) *)

\* C1: merging delta B into record A gives exactly: bytes and packets summed,
\* every icmp/arp subtype count summed (an absent subtype counting 0),
\* final_timestamp, service and traffic_direction taken from B,
\* initial_timestamp kept from A, and latency (resp. syn_info) taken from B
\* when B carries one and kept from A otherwise.
C1_RefreshIsFieldwiseMerge ==
    last_delta # None =>
        LET A == rec_before[1]
            B == last_delta[1]
        IN  /\ rec.transmitted_bytes = A.transmitted_bytes + B.transmitted_bytes
            /\ rec.transmitted_packets
                   = A.transmitted_packets + B.transmitted_packets
            /\ \A t \in IcmpTypes :
                   Count(rec.icmp_types, t)
                       = Count(A.icmp_types, t) + Count(B.icmp_types, t)
            /\ \A t \in ArpTypes :
                   Count(rec.arp_types, t)
                       = Count(A.arp_types, t) + Count(B.arp_types, t)
            /\ rec.final_timestamp = B.final_timestamp
            /\ rec.service = B.service
            /\ rec.traffic_direction = B.traffic_direction
            /\ rec.initial_timestamp = A.initial_timestamp
            /\ rec.latency = (IF B.latency = None THEN A.latency ELSE B.latency)
            /\ rec.syn_info = (IF B.syn_info = None THEN A.syn_info ELSE B.syn_info)

\* a merge whose delta has no latency into a record that has one, adds a
\* subtype the record did not count yet and sums one it did
C1_Witness ==
    /\ last_delta # None
    /\ rec_before[1].latency # None
    /\ last_delta[1].latency = None
    /\ rec.latency = rec_before[1].latency
    /\ last_delta[1].syn_info # None
    /\ "EchoReply" \notin DOMAIN rec_before[1].icmp_types
    /\ Count(rec.icmp_types, "EchoReply") = 2
    /\ Count(rec.icmp_types, "EchoRequest") = 2
    /\ rec.transmitted_bytes = 6
    /\ rec.initial_timestamp # rec.final_timestamp

\* C2: along any sequence of merges into one record the byte and packet
\* counters never decrease, initial_timestamp never changes, and a latency
\* (resp. syn_info) that is present is never absent afterwards.
C2_MergeIsMonotonic ==
    [][/\ rec'.transmitted_bytes >= rec.transmitted_bytes
       /\ rec'.transmitted_packets >= rec.transmitted_packets
       /\ rec'.initial_timestamp = rec.initial_timestamp
       /\ (rec.latency # None => rec'.latency # None)
       /\ (rec.syn_info # None => rec'.syn_info # None)]_vars

\* two merges were applied, the last with a zero byte count and without
\* latency and syn_info, to a record that had both
C2_Witness ==
    /\ n_refresh = 2
    /\ rec_before[1].latency # None
    /\ rec_before[1].syn_info # None
    /\ rec_before[1].transmitted_bytes = 3
    /\ last_delta[1].latency = None
    /\ last_delta[1].syn_info = None
    /\ last_delta[1].transmitted_bytes = 0
    /\ last_delta[1].initial_timestamp # rec.initial_timestamp

----------------------------------------------------------------------------
(* Properties of the comparator (SpecCompare) *)

\* C5: for every sort key and direction compare(A,B) is the reverse of
\* compare(B,A), also when latency is absent on one or both records (absent
\* sorting below present), and the Descending result is the reverse of the
\* Ascending one for the same key.
C5_CompareAntisymmetric ==
    /\ \A sb \in SortBys, st \in SortTypes, dr \in DataReprs :
           compare(pair_a, pair_b, sb, st, dr)
               = Reverse(compare(pair_b, pair_a, sb, st, dr))
    /\ \A sb \in SortBys, dr \in DataReprs :
           compare(pair_a, pair_b, sb, "Descending", dr)
               = Reverse(compare(pair_a, pair_b, sb, "Ascending", dr))
    /\ (pair_a.latency = None /\ pair_b.latency # None) =>
           \A dr \in DataReprs :
               compare(pair_a, pair_b, "Latency", "Ascending", dr) = "Less"
    /\ (pair_a.latency = None /\ pair_b.latency = None) =>
           \A dr \in DataReprs :
               compare(pair_a, pair_b, "Latency", "Ascending", dr) = "Equal"
    /\ cmp_result # "-" =>
           cmp_result = Reverse(compare(pair_b, pair_a, cmp_args.sort_by,
                                        cmp_args.sort_type, cmp_args.data_repr))

\* a Descending comparison by latency of a record without latency against one
\* with latency was made and answered Greater
C5_Witness ==
    /\ cmp_args.sort_by = "Latency"
    /\ cmp_args.sort_type = "Descending"
    /\ pair_a.latency = None
    /\ pair_b.latency # None
    /\ cmp_result = "Greater"

\* microseconds since the epoch of a Timestamp
Micros(t) == t.secs * 1000000 + t.usecs

\* C6: under Neutral the result is the same for every sort key and every data
\* representation and orders by final_timestamp descending: Less exactly when
\* A's final_timestamp is later than B's, Greater exactly when it is earlier,
\* whatever the counters and latency are.
C6_NeutralIsRecencyOrder ==
    /\ \A sb \in SortBys, dr \in DataReprs :
           LET o == compare(pair_a, pair_b, sb, "Neutral", dr)
           IN  /\ o = "Less"
                     <=> Micros(pair_a.final_timestamp)
                             > Micros(pair_b.final_timestamp)
               /\ o = "Greater"
                     <=> Micros(pair_a.final_timestamp)
                             < Micros(pair_b.final_timestamp)
    /\ cmp_args.sort_type = "Neutral" =>
           \A sb \in SortBys, dr \in DataReprs :
               cmp_result = compare(pair_a, pair_b, sb, "Neutral", dr)

\* a Neutral comparison by Bytes answered Less for a record with more bytes,
\* fewer packets and no latency, whose final_timestamp is later by its
\* seconds although its microseconds are fewer
C6_Witness ==
    /\ cmp_args.sort_type = "Neutral"
    /\ cmp_args.sort_by = "Bytes"
    /\ cmp_result = "Less"
    /\ pair_a.transmitted_bytes > pair_b.transmitted_bytes
    /\ pair_a.transmitted_packets < pair_b.transmitted_packets
    /\ pair_a.latency = None
    /\ pair_a.final_timestamp.secs > pair_b.final_timestamp.secs
    /\ pair_a.final_timestamp.usecs < pair_b.final_timestamp.usecs

----------------------------------------------------------------------------
(* Properties of the connections report (SpecQuery) *)

\* the keys of the map that satisfy the search
MatchingKeys(sn) ==
    {sn.map[i].key : i \in {j \in 1..Len(sn.map) :
                              entry_matches(sn, sn.map[j].key, sn.map[j].val)}}

\* the pages from..last of the report, one call per page, concatenated
RECURSIVE ConcatPages(_, _, _, _)
ConcatPages(sn, sort_by_arg, from, last) ==
    IF from > last THEN <<>>
    ELSE get_searched_entries([sn EXCEPT !.page_number = from], sort_by_arg).entries
             \o ConcatPages(sn, sort_by_arg, from + 1, last)

\* ceil(total / 20)
PageCount(total) == (total + PageSize - 1) \div PageSize

\* C3: for a fixed map, search, blacklist and sort setting the pages
\* 1..ceil(total/20) concatenated are the full sorted match set: every matching
\* connection exactly once, in sorted order, at most 20 entries per page
\* (45 matches: page 3 is entries [40,45), 5 entries, total 45).
C3_PagesCoverSortedMatches ==
    searched # None =>
        LET sb == searched[1].sort_by_arg
            result == searched[1].result
            sorted == all_results(sniffer, sb)
            pages == ConcatPages(sniffer, sb, 1, PageCount(result.total))
        IN  /\ pages = sorted
            /\ Len(pages) = Cardinality(MatchingKeys(sniffer))
            /\ {pages[i].key : i \in 1..Len(pages)} = MatchingKeys(sniffer)
            /\ Len(result.entries) <= PageSize
            /\ (sniffer.page_number \in 1..PageCount(result.total)) =>
                   \A i \in 1..Len(result.entries) :
                       result.entries[i]
                           = pages[(sniffer.page_number - 1) * PageSize + i]
            /\ (result.total = 45 /\ sniffer.page_number = 3) =>
                   /\ Len(result.entries) = 5
                   /\ result.entries = SubSeq(sorted, 41, 45)

\* page 3 of 45 matches was asked for and has 5 entries
C3_Witness ==
    /\ searched # None
    /\ searched[1].result.total = 45
    /\ sniffer.page_number = 3
    /\ Len(searched[1].result.entries) = 5
    /\ sniffer.report_sort_type = "Descending"

\* C4: the full matched set is sorted by the comparator with the requested
\* sort key and direction: whichever key is requested, no entry of the result
\* compares Greater than a later one under
\* compare(_, _, requested key, report_sort_type). (get_searched_entries reads
\* no requested key, so its result is the same for each of them.)
C4_SortedByRequestedKey ==
    searched # None =>
        LET entries == all_results(sniffer, searched[1].sort_by_arg)
        IN  \A requested \in SortBys :
                \A i, j \in 1..Len(entries) :
                    i < j =>
                        compare(entries[i].val, entries[j].val, requested,
                                sniffer.report_sort_type, sniffer.data_repr)
                            # "Greater"

\* C7: an entry is flagged blacklisted exactly when address1 or address2 of
\* its key is in the blacklist, and the blacklist changes neither which
\* records match, nor the total, nor the aggregate.
C7_BlacklistFlag ==
    searched # None =>
        LET result == searched[1].result
        IN  /\ \A i \in 1..Len(result.entries) :
                   result.entries[i].is_blacklisted
                       <=> (\/ result.entries[i].key.address1 \in sniffer.blacklist
                            \/ result.entries[i].key.address2 \in sniffer.blacklist)
            /\ \A b \in Blacklists :
                   LET other == get_searched_entries(
                                    [sniffer EXCEPT !.blacklist = b],
                                    searched[1].sort_by_arg)
                   IN  /\ other.total = result.total
                       /\ other.agglomerate = result.agglomerate
                       /\ [i \in 1..Len(other.entries) |-> other.entries[i].key]
                              = [i \in 1..Len(result.entries) |->
                                    result.entries[i].key]

\* a page holds an entry flagged for its address1 alone, one flagged for its
\* address2 alone, and one not flagged
C7_Witness ==
    /\ searched # None
    /\ sniffer.blacklist # {}
    /\ LET entries == searched[1].result.entries
       IN  /\ \E i \in 1..Len(entries) :
                  /\ entries[i].is_blacklisted
                  /\ entries[i].key.address1 \in sniffer.blacklist
                  /\ entries[i].key.address2 \notin sniffer.blacklist
           /\ \E i \in 1..Len(entries) :
                  /\ entries[i].is_blacklisted
                  /\ entries[i].key.address1 \notin sniffer.blacklist
                  /\ entries[i].key.address2 \in sniffer.blacklist
           /\ \E i \in 1..Len(entries) : ~entries[i].is_blacklisted

\* C9: the page number never makes the call fail: the entries are the slice
\* [start, end) with start = (page_number - 1) * 20 (0 for page 0) and
\* end = min(page_number * 20, total); when start >= total they are empty,
\* and total and aggregate are still those of all the matches.
C9_PageOutOfRangeIsEmpty ==
    searched # None =>
        LET result == searched[1].result
            sorted == all_results(sniffer, searched[1].sort_by_arg)
            start == IF sniffer.page_number <= 0 THEN 0
                     ELSE (sniffer.page_number - 1) * PageSize
            end == IF sniffer.page_number * PageSize <= result.total
                   THEN sniffer.page_number * PageSize
                   ELSE result.total
        IN  /\ result.entries = [i \in 1..(IF end > start THEN end - start ELSE 0)
                                    |-> sorted[start + i]]
            /\ start >= result.total => result.entries = <<>>
            /\ result.total = Cardinality(MatchingKeys(sniffer))
            /\ result.agglomerate
                   = agglomerate_of(collect(sniffer), DataInfoDefault)

\* a page beyond the data was asked for while there are matches, and the
\* result is empty with the total and the aggregate of all matches
C9_Witness ==
    /\ searched # None
    /\ sniffer.page_number = 3
    /\ searched[1].result.total = 25
    /\ searched[1].result.entries = <<>>
    /\ searched[1].result.agglomerate.outgoing_bytes > 0

\* packets and bytes of the map's records that match and have the direction
RECURSIVE SumOver(_, _, _, _)
SumOver(sn, i, direction, field) ==
    IF i = 0 THEN 0
    ELSE SumOver(sn, i - 1, direction, field)
         + (IF /\ entry_matches(sn, sn.map[i].key, sn.map[i].val)
               /\ sn.map[i].val.traffic_direction = direction
            THEN (IF field = "packets" THEN sn.map[i].val.transmitted_packets
                  ELSE sn.map[i].val.transmitted_bytes)
            ELSE 0)

\* C10: total is the number of records that match, and the aggregate is the
\* sum of packets and bytes over all the matching records, incoming and
\* outgoing apart, whatever the page; records that do not match add nothing.
C10_TotalAndAggregateOfAllMatches ==
    searched # None =>
        LET result == searched[1].result
            n == Len(sniffer.map)
        IN  /\ result.total = Cardinality(MatchingKeys(sniffer))
            /\ result.agglomerate.incoming_packets
                   = SumOver(sniffer, n, "Incoming", "packets")
            /\ result.agglomerate.outgoing_packets
                   = SumOver(sniffer, n, "Outgoing", "packets")
            /\ result.agglomerate.incoming_bytes
                   = SumOver(sniffer, n, "Incoming", "bytes")
            /\ result.agglomerate.outgoing_bytes
                   = SumOver(sniffer, n, "Outgoing", "bytes")
            /\ \A p \in 0..MaxPage :
                   LET other == get_searched_entries(
                                    [sniffer EXCEPT !.page_number = p],
                                    searched[1].sort_by_arg)
                   IN  /\ other.total = result.total
                       /\ other.agglomerate = result.agglomerate

\* only the favorites match, the page shown is the second of one, and both
\* directions are in the aggregate
C10_Witness ==
    /\ searched # None
    /\ sniffer.search = "OnlyFavorites"
    /\ sniffer.page_number = 2
    /\ Len(sniffer.map) = 30
    /\ searched[1].result.total = 7
    /\ searched[1].result.entries = <<>>
    /\ searched[1].result.agglomerate.incoming_packets > 0
    /\ searched[1].result.agglomerate.outgoing_bytes > 0

----------------------------------------------------------------------------
(* Properties of the overviews (SpecTop) *)

\* `entries` is a prefix of the table's elements in sorted order: no two
\* entries are the same element, none compares Greater than a later one, and
\* no element left out compares Less than one returned
IsTopOf(entries, elements, table) ==
    /\ \A i \in 1..Len(entries) : entries[i] \in elements
    /\ \A i, j \in 1..Len(entries) : i < j =>
           /\ entries[i] # entries[j]
           /\ data_info_compare(data_info_of(entries[i], table),
                                data_info_of(entries[j], table),
                                top_args.sort_type, top_args.data_repr)
                  # "Greater"
    /\ \A x \in elements :
           (\A i \in 1..Len(entries) : entries[i] # x) =>
               \A i \in 1..Len(entries) :
                   data_info_compare(data_info_of(x, table),
                                     data_info_of(entries[i], table),
                                     top_args.sort_type, top_args.data_repr)
                       # "Less"

\* the elements of a table
Elements(table) == {table[i] : i \in 1..Len(table)}

\* C8: get_host_entries returns the first min(30, hosts) entries of the sorted
\* host table, get_service_entries the first min(30, services other than
\* NotApplicable) entries of the sorted service table, never NotApplicable;
\* neither returns more than 30 entries, and an empty table gives none.
C8_TopThirty ==
    /\ top_hosts # None =>
           LET entries == top_hosts[1]
               n == Len(info_traffic.hosts)
           IN  /\ Len(entries) = (IF n < 30 THEN n ELSE 30)
               /\ Len(entries) <= 30
               /\ IsTopOf(entries, Elements(info_traffic.hosts), "hosts")
               /\ entries = SubSeq(sort_by_top(info_traffic.hosts, "hosts",
                                               top_args.sort_type,
                                               top_args.data_repr),
                                   1, Len(entries))
    /\ top_services # None =>
           LET entries == top_services[1]
               applicable == {e \in Elements(info_traffic.services) :
                                 e[1] # NotApplicable}
               n == Cardinality(applicable)
           IN  /\ Len(entries) = (IF n < 30 THEN n ELSE 30)
               /\ Len(entries) <= 30
               /\ \A i \in 1..Len(entries) : entries[i][1] # NotApplicable
               /\ IsTopOf(entries, applicable, "services")

\* both overviews were asked for with more than 30 hosts and more than 30
\* services other than NotApplicable in the tables, and each holds 30
C8_Witness ==
    /\ top_hosts # None
    /\ top_services # None
    /\ Len(info_traffic.hosts) = 31
    /\ Len(info_traffic.services) = 32
    /\ \E i \in 1..32 : info_traffic.services[i][1] = NotApplicable
    /\ Len(top_hosts[1]) = 30
    /\ Len(top_services[1]) = 30
    /\ top_args.sort_type = "Descending"

====
